---- MODULE Spec2Model ----
(***************************************************************************)
(* State-machine model of src/main.py: the /syncronize webhook handler of  *)
(* the e-requesting bridge.  The EMR (source FHIR server) and the          *)
(* repository (destination FHIR server) are the two stores; every          *)
(* `await` of the handler is one step of an invocation, so invocations     *)
(* interleave exactly at the handler's suspension points.                  *)
(***************************************************************************)
EXTENDS Integers, Sequences, FiniteSets, TLC

(* ------------------------------ bounds --------------------------------- *)
\* number of webhook deliveries (handler invocations) in a run
MaxInvocations == 2
\* number of ServiceRequest resources the EMR may come to hold
MaxRecords == 2
\* number of identifier writes by other EMR clients in a run
MaxExternalWrites == 1

Invocations == 1..MaxInvocations
RecordIds == 1..MaxRecords

(* ----------------------------- constants ------------------------------- *)
REPOSITORY_BASE_URL == "https://erequesting.aidbox.beda.software/fhir"
PyroHost == "pyroserver.azurewebsites.net"
\* the destination namespace built by syncronize
system == REPOSITORY_BASE_URL \o "/ServiceRequest"
\* a namespace of some other system, used by identifiers that are already on
\* a record or that other EMR clients add
OtherSystem == "http://emr.local/ids/accession"

(* --------------------------- identifier() ------------------------------ *)
RECURSIVE Zeros(_)
Zeros(k) == IF k <= 0 THEN "" ELSE "0" \o Zeros(k - 1)

RECURSIVE Digits(_)
\* number of decimal digits of n >= 0
Digits(n) == IF n < 10 THEN 1 ELSE 1 + Digits(n \div 10)

\* "%d" % n : no padding
FormatUnpadded(n) == ToString(n)

\* "%06d" % n : decimal, left-padded with zeros to at least six characters
Format06d(n) == Zeros(6 - Digits(n)) \o ToString(n)

identifier(order_id) ==
    [ type   |-> [ coding |-> << [ system |-> "http://terminology.hl7.org/CodeSystem/v2-0203",
                                   code |-> "PGN" ] >>,
                   text |-> "Placer Group Number" ],
      system |-> "http://diagnostic-orders-are-us.com.au/ids/pgn",
      value  |-> "BEDA0325-" \o Format06d(order_id) ]

(* ------------------------- location parsing ---------------------------- *)
\* A location is a string, modelled as the sequence of its lexemes: the
\* separator "/" and the maximal runs of other characters.
Sep == "/"

RECURSIVE Join(_)
Join(seg) == IF seg = << >> THEN "" ELSE Head(seg) \o Join(Tail(seg))

RECURSIVE SplitFrom(_, _, _)
\* str.split("/"): the pieces between separators, empty pieces kept
SplitFrom(loc, i, cur) ==
    IF i > Len(loc) THEN << Join(cur) >>
    ELSE IF loc[i] = Sep THEN << Join(cur) >> \o SplitFrom(loc, i + 1, << >>)
    ELSE SplitFrom(loc, i + 1, Append(cur, loc[i]))

Split(loc) == SplitFrom(loc, 1, << >>)

\* `"pyroserver.azurewebsites.net" in location`
ContainsPyro(loc) == \E i \in 1..Len(loc) : loc[i] = PyroHost

\* Python list index, zero based; "IndexError" when out of range
Index(parts, k) == IF k + 1 <= Len(parts) THEN parts[k + 1] ELSE "IndexError"

\* an extraction that knows the short location only
ExtractIdShortOnly(loc) == Index(Split(loc), 1)

ExtractId(loc) ==
    IF ContainsPyro(loc) THEN Index(Split(loc), 5) ELSE Index(Split(loc), 1)

(* ------------------------- EMR reference data -------------------------- *)
\* dict helpers: `del d[k]` and `k in d`
HasKey(d, k) == k \in DOMAIN d
Del(d, k) == [f \in DOMAIN d \ {k} |-> d[f]]
Put(d, k, v) == [f \in DOMAIN d \cup {k} |-> IF f = k THEN v ELSE d[f]]

\* Patient resources of the EMR, as to_resource().serialize() returns them
Patients ==
    [ id \in {"pat-1", "pat-2"} |->
        [ resourceType |-> "Patient",
          id   |-> id,
          meta |-> [ versionId |-> "1" ],
          name |-> IF id = "pat-1" THEN "Ann" ELSE "Bob" ] ]

\* Encounter resources of the EMR; enc-3 carries no participant
Encounters ==
    [ id \in {"enc-1", "enc-2", "enc-3"} |->
        LET base == [ resourceType |-> "Encounter",
                      id     |-> id,
                      meta   |-> [ versionId |-> "1" ],
                      status |-> "in-progress",
                      class  |-> [ system |-> "http://terminology.hl7.org/CodeSystem/v3-ActCode",
                                   code |-> "IMP" ] ]
        IN IF id = "enc-3" THEN base
           ELSE Put(base, "participant", << [ individual |-> "Practitioner/1" ] >>) ]

\* The requester and performer resources of the EMR; pr-2 carries no identifier
Parties ==
    [ id \in {"pr-1", "pr-2", "org-1"} |->
        LET base == [ resourceType |-> IF id = "org-1" THEN "Organization" ELSE "PractitionerRole",
                      id |-> id ]
        IN IF id = "pr-2" THEN base
           ELSE Put(base, "identifier",
                    << [ system |-> "http://ns.electronichealth.net.au/id/hpio", value |-> "hpi-" \o id ] >>) ]

\* The ServiceRequest resources a client of the EMR may create
Templates ==
    << [ identifier |-> << >>,
         category   |-> "108252007",
         code       |-> "26604007",
         priority   |-> "routine",
         intent     |-> "order",
         subject    |-> "pat-1",
         encounter  |-> "enc-1",
         requester  |-> "pr-1",
         performer  |-> << "org-1" >> ],
       [ identifier |-> << [ system |-> OtherSystem, value |-> "acc-0" ] >>,
         category   |-> "363679005",
         code       |-> "168537006",
         priority   |-> "urgent",
         intent     |-> "plan",
         subject    |-> "pat-2",
         encounter  |-> "enc-2",
         requester  |-> "pr-2",
         performer  |-> << "org-1" >> ],
       [ identifier |-> << >>,
         category   |-> "363679005",
         code       |-> "26604007",
         priority   |-> "routine",
         intent     |-> "order",
         subject    |-> "pat-1",
         encounter  |-> "enc-3",
         requester  |-> "pr-1",
         performer  |-> << "org-1" >> ] >>

(* ---------------------- prepare_service_request ------------------------ *)
\* uuid4(): a fresh value; the k-th one drawn by invocation p
Uuid(p, k) == "uuid-" \o ToString(p) \o "-" \o ToString(k)

urn(id) == "urn:uuid:" \o id

LabProfile == "http://hl7.org.au/fhir/ereq/StructureDefinition/au-erequesting-servicerequest-path"
TaskProfile == "http://hl7.org.au/fhir/ereq/StructureDefinition/au-erequesting-task"
PyroPractitionerRole ==
    "http://pyroserver.azurewebsites.net/pyro/PractitionerRole/00040000-ac10-0242-ebbf-08dd1a46f4d5"
PyroOrganization ==
    "http://pyroserver.azurewebsites.net/pyro/Organization/00040000-ac10-0242-bfe0-08dd1a32990a"

contained(patient_id) ==
    << [ resourceType |-> "Coverage",
         id          |-> "coverage",
         status      |-> "active",
         type        |-> [ code |-> "PUBLICPOL", text |-> "Bulk Billed" ],
         beneficiary |-> [ reference |-> urn(patient_id) ] ],
       [ resourceType |-> "Encounter",
         id     |-> "encounter",
         status |-> "finished",
         class  |-> [ system |-> "http://terminology.hl7.org/CodeSystem/v3-ActCode",
                      code |-> "AMB", display |-> "ambulatory" ] ] >>

\* lines 69-72: the patient as embedded, and its id
PatientData(patient) == Del(patient, "meta")

\* lines 76-78: `del` of a key the encounter does not carry raises KeyError
EncounterKeyError(encounter) ==
    ~ (HasKey(encounter, "meta") /\ HasKey(encounter, "participant")
       /\ HasKey(encounter, "class"))

\* lines 74-83: the encounter as embedded
EncounterData(encounter, patient_id) ==
    IF EncounterKeyError(encounter)
    THEN [ error |-> "KeyError" ]
    ELSE LET e1 == Del(Del(Del(encounter, "meta"), "participant"), "class")
             e2 == Put(e1, "class",
                       [ system |-> "http://terminology.hl7.org/CodeSystem/v3-ActCode",
                         code |-> "AMB" ])
         IN Put(e2, "subject", [ reference |-> urn(patient_id) ])

ExternalSr(srv, order_number, patient_id, sr_id) ==
    [ resourceType |-> "ServiceRequest",
      meta        |-> [ profile |-> << LabProfile >> ],
      requisition |-> identifier(order_number),
      id          |-> sr_id,
      contained   |-> contained(patient_id),
      authoredOn  |-> "2024-12-12T10:00:00+10:00",
      category    |-> "108252007",
      code        |-> srv.code,
      priority    |-> srv.priority,
      requester   |-> [ reference |-> PyroPractitionerRole ],
      status      |-> "active",
      intent      |-> srv.intent,
      subject     |-> [ reference |-> urn(patient_id) ],
      encounter   |-> [ reference |-> "#encounter" ],
      insurance   |-> << [ reference |-> "#coverage" ] >>,
      extension   |-> << [ url |-> "http://hl7.org.au/fhir/ereq/StructureDefinition/au-erequesting-displaysequence",
                           valueInteger |-> 1 ] >> ]

ExternalTask(srv, order_number, patient_id, sr_id, tag) ==
    [ resourceType    |-> "Task",
      meta            |-> [ profile |-> << TaskProfile >>, tag |-> tag ],
      groupIdentifier |-> identifier(order_number),
      status          |-> "requested",
      businessStatus  |-> "active",
      priority        |-> srv.priority,
      code            |-> "fulfil",
      intent          |-> "order",
      focus           |-> [ reference |-> urn(sr_id) ],
      owner           |-> [ reference |-> PyroOrganization ],
      authoredOn      |-> "2024-03-21T10:00:00+10:00",
      for             |-> [ reference |-> urn(patient_id) ],
      requester       |-> [ reference |-> PyroPractitionerRole ] ]

\* an entry whose fullUrl is spelt as a path on the repository
EntryPathFullUrl(url, resource, fullUrl) ==
    [ request |-> [ url |-> url, method |-> "POST" ],
      resource |-> resource,
      fullUrl |-> url \o "/" \o fullUrl ]

Entry(url, resource, fullUrl) ==
    [ request |-> [ url |-> url, method |-> "POST" ],
      resource |-> resource,
      fullUrl |-> fullUrl ]

\* The bundle prepare_service_request returns for invocation p, once the
\* patient and the encounter are resolved
prepare_service_request(srv, order_number, patient, encounter, p) ==
    LET patient_data   == PatientData(patient)
        patient_id     == patient_data.id
        encounter_data == EncounterData(encounter, patient_id)
        sr_id          == Uuid(p, 1)
        group_task_id  == Uuid(p, 2)
        task_id        == Uuid(p, 3)
        encounter_id   == encounter_data.id
    IN [ resourceType |-> "Bundle",
         type  |-> "transaction",
         entry |-> <<
            Entry("ServiceRequest",
                  ExternalSr(srv, order_number, patient_id, sr_id), urn(sr_id)),
            Entry("Patient", Del(patient_data, "id"), urn(patient_id)),
            Entry("Task",
                  ExternalTask(srv, order_number, patient_id, sr_id, "fulfilment-task-group"),
                  urn(group_task_id)),
            Entry("Task",
                  ExternalTask(srv, order_number, patient_id, sr_id, "fulfilment-task"),
                  urn(task_id)),
            Entry("Encounter", Del(encounter_data, "id"), urn(encounter_id)) >> ]

(* ------------------------------- state --------------------------------- *)
VARIABLES
    emr,             \* the EMR's ServiceRequest resources, in creation order (id = position)
    extWrites,       \* identifier writes made so far by other EMR clients
    deployment,      \* the shape of the locations the repository answers with
    dest,            \* the repository's ServiceRequest resources, in creation order
    pc,              \* per invocation: the await it is suspended at
    rec,             \* per invocation: data["resource"]["id"]
    sr,              \* per invocation: the fetched resource (local copy)
    order_number,    \* per invocation: the count it read
    external_sr_id,  \* per invocation: the identity parsed from the location
    error,           \* per invocation: the exception that ended it, "" if none
    calls,           \* per invocation: the external calls it has made, in order
                     \* (a call that raised is logged with the suffix ":error")
    before,          \* per invocation: the invocations already ended when it started
    dirty,           \* per invocation: its record was written by another since its fetch
    fmt_in,          \* the sequence numbers handed to identifier() on its own
    fmt_out          \* the identifiers it returned for them

vars == << emr, extWrites, deployment, dest, pc, rec, sr, order_number,
           external_sr_id, error, calls, before, dirty, fmt_in, fmt_out >>

\* the state of identifier() called on its own; the handler never touches it
formatter == << fmt_in, fmt_out >>

None == [ none |-> TRUE ]

Deployments == { "short", "prefixed", "pyro" }

\* the location the repository reports for a ServiceRequest it created
LocationOf(shape, id) ==
    CASE shape = "short"    -> << "ServiceRequest", Sep, id >>
      [] shape = "prefixed" -> << "fhir", Sep, "ServiceRequest", Sep, id >>
      [] shape = "pyro"     -> << "https:", Sep, Sep, PyroHost, Sep, "pyro", Sep,
                                  "ServiceRequest", Sep, id, Sep, "_history", Sep, "1" >>

\* the identity the repository assigns to its n-th ServiceRequest
AssignedId(n) == "abc-" \o ToString(122 + n)

Ended(p) == pc[p] \in { "done", "failed" }
InFlight(p) == pc[p] \notin { "idle", "done", "failed" }

\* the patient and the encounter invocation p resolves (lines 69 and 74)
patient(p) == Patients[sr[p].subject]
encounter(p) == Encounters[sr[p].encounter]

\* the bundle invocation p builds (lines 257-259), once it has read the count
bundle(p) == prepare_service_request(sr[p], order_number[p], patient(p), encounter(p), p)

\* whether invocation p has made call c
Called(p, c) == \E i \in 1..Len(calls[p]) : calls[p][i] = c

\* both stores empty, no invocation started
HandlerIdle ==
    /\ emr = << >>
    /\ extWrites = 0
    /\ deployment \in Deployments
    /\ dest = << >>
    /\ pc = [p \in Invocations |-> "idle"]
    /\ rec = [p \in Invocations |-> 0]
    /\ sr = [p \in Invocations |-> None]
    /\ order_number = [p \in Invocations |-> -1]
    /\ external_sr_id = [p \in Invocations |-> ""]
    /\ error = [p \in Invocations |-> ""]
    /\ calls = [p \in Invocations |-> << >>]
    /\ before = [p \in Invocations |-> {}]
    /\ dirty = [p \in Invocations |-> FALSE]

Init ==
    /\ HandlerIdle
    /\ fmt_in = << >>
    /\ fmt_out = << >>

(* ---------------------------- environment ------------------------------ *)
\* every invocation in flight on record r, other than p, has now been overlapped
\* by a write to r
Dirtied(r, p) ==
    [q \in Invocations |-> IF q # p /\ InFlight(q) /\ rec[q] = r THEN TRUE ELSE dirty[q]]

\* A client of the EMR creates a ServiceRequest: the EMR numbers it next
CreateRecord(t) ==
    /\ UNCHANGED formatter
    /\ Len(emr) < MaxRecords
    /\ emr' = Append(emr, Templates[t])
    /\ UNCHANGED << extWrites, deployment, dest, pc, rec, sr, order_number,
                    external_sr_id, error, calls, before, dirty >>

\* Another client of the EMR adds an identifier of its own to a record.  Only
\* the writes that fall between some invocation's fetch and its end are
\* modelled: the others merely lengthen the list the next fetch reads, which
\* the templates vary already.
ExternalWrite(r) ==
    /\ UNCHANGED formatter
    /\ r \in DOMAIN emr
    /\ extWrites < MaxExternalWrites
    /\ \E q \in Invocations : InFlight(q) /\ rec[q] = r
    /\ extWrites' = extWrites + 1
    /\ emr' = [emr EXCEPT ![r].identifier =
                 Append(@, [ system |-> OtherSystem, value |-> "acc-" \o ToString(extWrites + 1) ])]
    /\ dirty' = Dirtied(r, 0)
    /\ UNCHANGED << deployment, dest, pc, rec, sr, order_number, external_sr_id,
                    error, calls, before >>

(* ----------------------------- syncronize ------------------------------ *)
\* a guard that looks at the first identifier only
AlreadySynchronizedFirstOnly(identifiers) ==
    identifiers # << >> /\ identifiers[1].system = system

\* lines 253-255: the loop over the fetched identifiers
AlreadySynchronized(identifiers) ==
    \E i \in 1..Len(identifiers) : identifiers[i].system = system

Fail(p, e) ==
    /\ pc' = [pc EXCEPT ![p] = "failed"]
    /\ error' = [error EXCEPT ![p] = e]

\* a fetch that carries on with an empty record when the EMR holds none
FetchAbsentTolerated(p, r) ==
    /\ UNCHANGED formatter
    /\ pc[p] = "idle"
    /\ \A q \in Invocations : q < p => pc[q] # "idle"
    /\ r <= Len(emr) + 1
    /\ rec' = [rec EXCEPT ![p] = r]
    /\ calls' = [calls EXCEPT ![p] = Append(@, "fetch")]
    /\ before' = [before EXCEPT ![p] = { q \in Invocations : Ended(q) }]
    /\ IF r \notin DOMAIN emr
       THEN /\ pc' = [pc EXCEPT ![p] = "count"]
            /\ UNCHANGED << sr, error >>
       ELSE /\ sr' = [sr EXCEPT ![p] = emr[r]]
            /\ IF AlreadySynchronized(emr[r].identifier)
               THEN Fail(p, "AlreadySynchronized")
               ELSE /\ pc' = [pc EXCEPT ![p] = "count"]
                    /\ UNCHANGED error
    /\ UNCHANGED << emr, extWrites, deployment, dest, order_number, external_sr_id, dirty >>

\* lines 245-255: the event is read, the record fetched, the guard applied.
\* search(...).first() yields None for an unknown id and the guard's sr.get
\* raises on it: the failure is recorded as "NotFound".
Fetch(p, r) ==
    /\ UNCHANGED formatter
    /\ pc[p] = "idle"
    /\ \A q \in Invocations : q < p => pc[q] # "idle"   \* numbered in order of arrival
    /\ r <= Len(emr) + 1   \* one id stands for all the ids the EMR does not hold
    /\ rec' = [rec EXCEPT ![p] = r]
    /\ calls' = [calls EXCEPT ![p] = Append(@, "fetch")]
    /\ before' = [before EXCEPT ![p] = { q \in Invocations : Ended(q) }]
    /\ IF r \notin DOMAIN emr
       THEN /\ Fail(p, "NotFound")
            /\ UNCHANGED sr
       ELSE /\ sr' = [sr EXCEPT ![p] = emr[r]]
            /\ IF AlreadySynchronized(emr[r].identifier)
               THEN Fail(p, "AlreadySynchronized")
               ELSE /\ pc' = [pc EXCEPT ![p] = "count"]
                    /\ UNCHANGED error
    /\ UNCHANGED << emr, extWrites, deployment, dest, order_number, external_sr_id, dirty >>

\* a count that hands out a number of its own to every reader
CountReserving(store) ==
    Len(store) + Cardinality({ q \in Invocations : order_number[q] >= 0 })

\* emr.resources("ServiceRequest").count()
Count(store) == Len(store)

\* line 256
ReadCount(p) ==
    /\ UNCHANGED formatter
    /\ pc[p] = "count"
    /\ order_number' = [order_number EXCEPT ![p] = Count(emr)]
    /\ calls' = [calls EXCEPT ![p] = Append(@, "count")]
    /\ pc' = [pc EXCEPT ![p] = "patient"]
    /\ UNCHANGED << emr, extWrites, deployment, dest, rec, sr, external_sr_id,
                    error, before, dirty >>

\* line 69: sr["subject"].to_resource()
ResolvePatient(p) ==
    /\ UNCHANGED formatter
    /\ pc[p] = "patient"
    /\ calls' = [calls EXCEPT ![p] = Append(@, "patient")]
    /\ pc' = [pc EXCEPT ![p] = "encounter"]
    /\ UNCHANGED << emr, extWrites, deployment, dest, rec, sr, order_number,
                    external_sr_id, error, before, dirty >>

\* lines 74-241 and 257-259: sr["encounter"].to_resource(), then the bundle is built
ResolveEncounter(p) ==
    /\ UNCHANGED formatter
    /\ pc[p] = "encounter"
    /\ calls' = [calls EXCEPT ![p] = Append(@, "encounter")]
    /\ IF EncounterKeyError(encounter(p))
       THEN Fail(p, "KeyError")
       ELSE /\ pc' = [pc EXCEPT ![p] = "submit"]
            /\ UNCHANGED error
    /\ UNCHANGED << emr, extWrites, deployment, dest, rec, sr, order_number,
                    external_sr_id, before, dirty >>

\* a repository that creates one order per source record at most
CommitOncePerSource(store, p, r) ==
    IF \E i \in 1..Len(store) : store[i].source = r
    THEN store
    ELSE Append(store, [ id |-> AssignedId(Len(store) + 1), by |-> p, source |-> r ])

\* the repository commits the transaction of invocation p for record r: a new
\* ServiceRequest whose content is entry 0 of that invocation's bundle
Commit(store, p, r) ==
    Append(store, [ id |-> AssignedId(Len(store) + 1), by |-> p, source |-> r ])

\* the ServiceRequest resource the repository holds for its order o
Resource(o) == bundle(o.by).entry[1].resource

\* bundle["entry"][0]["response"]["location"] of invocation p, once submitted
location(p) ==
    LET o == CHOOSE o \in { dest[i] : i \in 1..Len(dest) } : o.by = p
    IN LocationOf(deployment, o.id)

\* lines 262-270: bundle.save() returns, the location is parsed
SubmitOk(p) ==
    /\ UNCHANGED formatter
    /\ pc[p] = "submit"
    /\ calls' = [calls EXCEPT ![p] = Append(@, "submit")]
    /\ dest' = Commit(dest, p, rec[p])
    /\ LET loc == LocationOf(deployment, AssignedId(Len(dest) + 1))
       IN IF ExtractId(loc) = "IndexError"
          THEN /\ Fail(p, "IndexError")
               /\ UNCHANGED external_sr_id
          ELSE /\ external_sr_id' = [external_sr_id EXCEPT ![p] = ExtractId(loc)]
               /\ pc' = [pc EXCEPT ![p] = "save"]
               /\ UNCHANGED error
    /\ UNCHANGED << emr, extWrites, deployment, rec, sr, order_number, before, dirty >>

\* a handler that swallows the exception of bundle.save() and goes on
SubmitFailSwallowed(p) ==
    /\ UNCHANGED formatter
    /\ pc[p] = "submit"
    /\ calls' = [calls EXCEPT ![p] = Append(@, "submit:error")]
    /\ pc' = [pc EXCEPT ![p] = "save"]
    /\ UNCHANGED << emr, extWrites, deployment, dest, rec, sr, order_number,
                    external_sr_id, error, before, dirty >>

\* line 262: bundle.save() raises (the repository rejects, or the transport fails)
SubmitFail(p) ==
    /\ UNCHANGED formatter
    /\ pc[p] = "submit"
    /\ calls' = [calls EXCEPT ![p] = Append(@, "submit:error")]
    /\ Fail(p, "SubmissionError")
    /\ UNCHANGED << emr, extWrites, deployment, dest, rec, sr, order_number,
                    external_sr_id, before, dirty >>

\* a write-back that appends to the list the EMR holds at the time of the write
WriteBackListOntoStored(stored, fetched, entry) == Append(stored, entry)

\* a write-back that sends the new entry alone
WriteBackListEntryOnly(stored, fetched, entry) == << entry >>

\* lines 272-274: the list the invocation sends back
WriteBackList(stored, fetched, entry) == Append(fetched, entry)

\* lines 272-277: sr.save(fields=["identifier"]) succeeds, the handler returns
WriteBackOk(p) ==
    /\ UNCHANGED formatter
    /\ pc[p] = "save"
    /\ calls' = [calls EXCEPT ![p] = Append(@, "save")]
    /\ LET identifiers == WriteBackList(emr[rec[p]].identifier, sr[p].identifier,
                                        [ system |-> system, value |-> external_sr_id[p] ])
       IN /\ sr' = [sr EXCEPT ![p].identifier = identifiers]
          /\ emr' = [emr EXCEPT ![rec[p]].identifier = identifiers]
    /\ dirty' = Dirtied(rec[p], p)
    /\ pc' = [pc EXCEPT ![p] = "done"]
    /\ UNCHANGED << extWrites, deployment, dest, rec, order_number, external_sr_id,
                    error, before >>

\* a failing write-back that has stored the list all the same
WriteBackFailStored(p) ==
    /\ UNCHANGED formatter
    /\ pc[p] = "save"
    /\ calls' = [calls EXCEPT ![p] = Append(@, "save:error")]
    /\ sr' = [sr EXCEPT ![p].identifier =
                Append(@, [ system |-> system, value |-> external_sr_id[p] ])]
    /\ emr' = [emr EXCEPT ![rec[p]].identifier = sr'[p].identifier]
    /\ Fail(p, "WriteBackError")
    /\ UNCHANGED << extWrites, deployment, dest, rec, order_number,
                    external_sr_id, before, dirty >>

\* line 275: sr.save raises
WriteBackFail(p) ==
    /\ UNCHANGED formatter
    /\ pc[p] = "save"
    /\ calls' = [calls EXCEPT ![p] = Append(@, "save:error")]
    /\ sr' = [sr EXCEPT ![p].identifier =
                Append(@, [ system |-> system, value |-> external_sr_id[p] ])]
    /\ Fail(p, "WriteBackError")
    /\ UNCHANGED << emr, extWrites, deployment, dest, rec, order_number,
                    external_sr_id, before, dirty >>

Next ==
    \/ \E t \in DOMAIN Templates : CreateRecord(t)
    \/ \E r \in RecordIds : ExternalWrite(r)
    \/ \E p \in Invocations, r \in RecordIds : Fetch(p, r)
    \/ \E p \in Invocations : ReadCount(p)
    \/ \E p \in Invocations : ResolvePatient(p)
    \/ \E p \in Invocations : ResolveEncounter(p)
    \/ \E p \in Invocations : SubmitOk(p)
    \/ \E p \in Invocations : SubmitFail(p)
    \/ \E p \in Invocations : WriteBackOk(p)
    \/ \E p \in Invocations : WriteBackFail(p)

Spec == Init /\ [][Next]_vars

(* ------------------------------ properties ----------------------------- *)
\* the destination-namespace entries of an identifier list
DestEntries(identifiers) ==
    { i \in 1..Len(identifiers) : identifiers[i].system = system }

\* the repository's orders created for record r
OrdersFor(r) == { i \in 1..Len(dest) : dest[i].source = r }

\* the repository's orders created by invocation p
OrdersBy(p) == { i \in 1..Len(dest) : dest[i].by = p }

Started(p) == pc[p] # "idle"

\* p and q do not overlap in time: one ended before the other started
NonOverlapping(p, q) == p \in before[q] \/ q \in before[p]

\* C1: an invocation for a record whose stored identifier list already holds an
\* entry of the destination namespace fails with "Already synchronized"; it
\* makes no count, no submission and no write-back, then or later, and the
\* stored records and the repository are left as they were.
C1_GuardRejects ==
    [][\A p \in Invocations :
         /\ ( /\ pc[p] = "idle" /\ pc'[p] # "idle"
              /\ rec'[p] \in DOMAIN emr
              /\ DestEntries(emr[rec'[p]].identifier) # {} )
            => /\ pc'[p] = "failed"
               /\ error'[p] = "AlreadySynchronized"
               /\ calls'[p] = << "fetch" >>
               /\ emr' = emr
               /\ dest' = dest
         /\ error[p] = "AlreadySynchronized"
            => /\ pc'[p] = "failed"
               /\ error'[p] = "AlreadySynchronized"
               /\ calls'[p] = << "fetch" >>
               /\ OrdersBy(p) = {}
      ]_vars

C1_Witness ==
    \E p \in Invocations :
        /\ error[p] = "AlreadySynchronized"
        /\ calls[p] = << "fetch" >>
        /\ DestEntries(emr[rec[p]].identifier) # {}

\* C2: every stored identifier list holds at most one entry of the destination
\* namespace, whatever the interleaving of invocations.
C2_AtMostOneCrossReference ==
    \A r \in DOMAIN emr : Cardinality(DestEntries(emr[r].identifier)) <= 1

\* two overlapping invocations for one record have both written back
C2_Witness ==
    \E p, q \in Invocations :
        /\ p # q /\ rec[p] = rec[q]
        /\ pc[p] = "done" /\ pc[q] = "done"
        /\ ~ NonOverlapping(p, q)
        /\ Cardinality(DestEntries(emr[rec[p]].identifier)) = 1

\* once an invocation for a record has completed, an invocation for the same
\* record that starts afterwards is rejected by the guard and creates no order
RejectedAfterSuccess ==
    \A p, q \in Invocations :
        ( /\ Started(p) /\ q \in before[p]
          /\ pc[q] = "done" /\ rec[q] = rec[p] )
        => /\ pc[p] = "failed"
           /\ error[p] = "AlreadySynchronized"
           /\ OrdersBy(p) = {}

\* the invocations for one record never overlap
Sequential ==
    \A p, q \in Invocations :
        (p # q /\ Started(p) /\ Started(q) /\ rec[p] = rec[q]) => NonOverlapping(p, q)

\* an invocation ended by an exception after its submission had succeeded
FailedAfterSubmission(p) == pc[p] = "failed" /\ OrdersBy(p) # {}

C4_WriteBackAppendsOne ==
    [][\A p \in Invocations :
         (pc[p] = "save" /\ pc'[p] = "done" /\ ~ dirty[p])
         => /\ emr[rec[p]].identifier = sr[p].identifier
            /\ emr' = [emr EXCEPT ![rec[p]].identifier =
                         Append(emr[rec[p]].identifier,
                                [ system |-> system, value |-> ExtractId(location(p)) ])]
      ]_vars

C4_Witness ==
    \E p \in Invocations :
        /\ pc[p] = "done" /\ ~ dirty[p]
        /\ Len(emr[rec[p]].identifier) = 2
        /\ emr[rec[p]].identifier[1].system = OtherSystem
        /\ emr[rec[p]].identifier[2] = [ system |-> system, value |-> ExtractId(location(p)) ]

\* q is the invocation that arrives next
ArrivesNext(q) == pc[q] = "idle" /\ \A o \in Invocations : o < q => pc[o] # "idle"

\* C5: nothing serializes the invocations for one record: while an invocation
\* is in flight for a record that carries no destination cross-reference yet,
\* another invocation for it passes the guard, and every invocation that has
\* built its bundle can have it committed as a further order, whatever orders
\* the repository already holds for that record.
C5_OverlapPassesGuard ==
    /\ \A p, q \in Invocations :
         ( /\ InFlight(p) /\ ArrivesNext(q)
           /\ DestEntries(emr[rec[p]].identifier) = {} )
         => ENABLED (Fetch(q, rec[p]) /\ pc'[q] = "count")
    /\ \A p \in Invocations :
         pc[p] = "submit"
         => ENABLED (SubmitOk(p) /\ OrdersFor(rec[p])' = OrdersFor(rec[p]) \cup { Len(dest) + 1 })

\* both invocations for one record hold a committed order, neither has written back
C5_Witness ==
    \E p, q \in Invocations :
        /\ p # q /\ rec[p] = rec[q]
        /\ pc[p] = "save" /\ pc[q] = "save"
        /\ DestEntries(sr[p].identifier) = {} /\ DestEntries(sr[q].identifier) = {}
        /\ OrdersBy(p) # {} /\ OrdersBy(q) # {}
        /\ Cardinality(OrdersFor(rec[p])) = 2

\* the requisition value the repository holds on its i-th order
Requisition(i) == Resource(dest[i]).requisition.value

\* C6: the sequence number is a plain read of the number of records: an
\* invocation that reads the count while it is what another invocation read
\* gets the same number and so the same identifier value, and that value is
\* what its order in the repository carries.
C6_SameCountSameIdentifier ==
    /\ [][\A p \in Invocations :
            (pc[p] = "count" /\ pc'[p] = "patient")
            => /\ order_number'[p] = Len(emr)
               /\ \A q \in Invocations \ {p} :
                    order_number[q] = Len(emr)
                    => identifier(order_number'[p]).value = identifier(order_number[q]).value
         ]_vars
    /\ [](\A i \in 1..Len(dest) :
            Requisition(i) = identifier(order_number[dest[i].by]).value)

\* two overlapping invocations for different records, one identifier value
C6_Witness ==
    \E i, j \in 1..Len(dest) :
        /\ dest[i].source # dest[j].source
        /\ ~ NonOverlapping(dest[i].by, dest[j].by)
        /\ Requisition(i) = Requisition(j)
        /\ bundle(dest[i].by).entry[3].resource.groupIdentifier.value
             = bundle(dest[j].by).entry[4].resource.groupIdentifier.value

\* C7 as stated: two successful invocations for different records that do not
\* overlap submit different requisition values.
C7_Original ==
    \A i, j \in 1..Len(dest) :
        ( /\ dest[i].source # dest[j].source
          /\ pc[dest[i].by] = "done" /\ pc[dest[j].by] = "done"
          /\ NonOverlapping(dest[i].by, dest[j].by) )
        => Requisition(i) # Requisition(j)

\* C8: an invocation whose bundle.save() raised ends there: it makes no
\* write-back, and the step leaves the EMR and the repository as they were.
C8_SubmissionFailure ==
    /\ [][\A p \in Invocations :
            (~ Called(p, "submit:error") /\ Called(p, "submit:error")')
            => emr' = emr /\ dest' = dest
         ]_vars
    /\ [](\A p \in Invocations :
            Called(p, "submit:error")
            => /\ pc[p] = "failed"
               /\ error[p] = "SubmissionError"
               /\ calls[p] = << "fetch", "count", "patient", "encounter", "submit:error" >>
               /\ OrdersBy(p) = {})

C8_Witness ==
    \E p \in Invocations :
        /\ error[p] = "SubmissionError"
        /\ ~ Called(p, "save")
        /\ emr[rec[p]].identifier = sr[p].identifier

\* C9: a write-back that raises leaves the order it submitted in the
\* repository and the EMR as it was, so without a cross-reference unless an
\* overlapping write stored one; the guard rejects an invocation only after a
\* write-back that succeeded, so a later invocation for the record passes it.
C9_WriteBackFailure ==
    /\ [][\A p \in Invocations :
            (~ Called(p, "save:error") /\ Called(p, "save:error")')
            => /\ emr' = emr
               /\ dest' = dest
               /\ OrdersBy(p) # {}
               /\ pc'[p] = "failed" /\ error'[p] = "WriteBackError"
               /\ ~ dirty[p] => DestEntries(emr'[rec[p]].identifier) = {}
         ]_vars
    /\ [](\A q \in Invocations :
            error[q] = "AlreadySynchronized"
            => \E p \in Invocations : rec[p] = rec[q] /\ pc[p] = "done")
    /\ [](\A p, q \in Invocations :
            ( /\ error[p] = "WriteBackError" /\ ArrivesNext(q)
              /\ DestEntries(emr[rec[p]].identifier) = {} )
            => ENABLED (Fetch(q, rec[p]) /\ pc'[q] = "count"))

\* the retry after a failed write-back has submitted a second order
C9_Witness ==
    \E p, q \in Invocations :
        /\ error[p] = "WriteBackError"
        /\ p \in before[q] /\ rec[q] = rec[p]
        /\ OrdersBy(p) # {} /\ OrdersBy(q) # {}
        /\ Cardinality(OrdersFor(rec[p])) = 2

\* the token that follows the first "ServiceRequest" token of a split location
AfterServiceRequest(parts) ==
    LET i == CHOOSE i \in 1..Len(parts) :
                 parts[i] = "ServiceRequest" /\ \A j \in 1..(i - 1) : parts[j] # "ServiceRequest"
    IN IF i + 1 <= Len(parts) THEN parts[i + 1] ELSE "IndexError"

\* C10 as stated: the identity extracted from a location holding the token
\* "ServiceRequest" is the token that follows it.
C10_Original ==
    \A p \in Invocations :
        OrdersBy(p) # {}
        => /\ \E i \in 1..Len(Split(location(p))) : Split(location(p))[i] = "ServiceRequest"
           /\ external_sr_id[p] = AfterServiceRequest(Split(location(p)))

(* ------------------------ identifier() on its own ----------------------- *)
\* the sequence numbers identifier() is tried on: the ends of the range, the
\* powers of ten and their predecessors, and the spec's two examples
FormatSamples ==
    { 0, 1, 9, 10, 99, 100, 999, 1000, 9999, 10000, 99999, 100000, 123456, 999999 }

FormatInit ==
    /\ HandlerIdle
    /\ fmt_in \in FormatSamples \X FormatSamples
    /\ fmt_out = << >>

\* identifier(order_id) is called for both numbers
FormatApply ==
    /\ fmt_out = << >>
    /\ fmt_out' = << identifier(fmt_in[1]), identifier(fmt_in[2]) >>
    /\ UNCHANGED << emr, extWrites, deployment, dest, pc, rec, sr, order_number,
                    external_sr_id, error, calls, before, dirty, fmt_in >>

FormatSpec == FormatInit /\ [][FormatApply]_vars

\* the k-th decimal digit of n, counted from the units
Digit(n, k) == ToString((n \div (10 ^ k)) % 10)

\* n written with exactly six decimal digits
SixDigits(n) ==
    Digit(n, 5) \o Digit(n, 4) \o Digit(n, 3) \o Digit(n, 2) \o Digit(n, 1) \o Digit(n, 0)

\* C11: for a sequence number n of 0..999999 the value of identifier(n) is
\* "BEDA0325-" followed by the six decimal digits of n, zero-padded on the
\* left (000000 for 0, 123456 for 123456), and distinct numbers give distinct
\* values.
C11_IdentifierFormat ==
    fmt_out # << >>
    => /\ \A k \in 1..2 :
            /\ fmt_in[k] \in 0..999999
            /\ fmt_out[k].value = "BEDA0325-" \o SixDigits(fmt_in[k])
            /\ fmt_in[k] = 0 => fmt_out[k].value = "BEDA0325-000000"
            /\ fmt_in[k] = 123456 => fmt_out[k].value = "BEDA0325-123456"
       /\ fmt_in[1] # fmt_in[2] => fmt_out[1].value # fmt_out[2].value

C11_Witness ==
    /\ fmt_in = << 0, 123456 >>
    /\ fmt_out # << >>
    /\ fmt_out[1].value = "BEDA0325-000000"
    /\ fmt_out[2].value = "BEDA0325-123456"

(* ------------------------- the outbound bundle ------------------------- *)
\* invocation p has built its bundle (prepare_service_request has returned)
BundleBuilt(p) ==
    \/ pc[p] \in { "submit", "save", "done" }
    \/ pc[p] = "failed" /\ error[p] \in { "SubmissionError", "IndexError", "WriteBackError" }

\* the entries of bundle b that are posted to endpoint url
EntriesTo(b, url) == { i \in 1..Len(b.entry) : b.entry[i].request.url = url }

\* reference ref targets the one entry of b posted to url, by its fullUrl
Targets(b, ref, url) ==
    /\ Cardinality(EntriesTo(b, url)) = 1
    /\ \A i \in EntriesTo(b, url) : ref.reference = b.entry[i].fullUrl

\* C12: in every bundle built, each reference to another entry of the bundle
\* (the order's subject, each task's focus and for, the encounter entry's
\* subject, the contained coverage's beneficiary) equals the fullUrl of the
\* entry it targets, and that entry is in the bundle.
C12_ReferenceIntegrity ==
    \A p \in Invocations :
        BundleBuilt(p) =>
            LET b == bundle(p)
                order == b.entry[1].resource
            IN /\ EntriesTo(b, "ServiceRequest") = {1}
               /\ Targets(b, order.subject, "Patient")
               /\ \A i \in 1..Len(order.contained) :
                     order.contained[i].resourceType = "Coverage"
                     => Targets(b, order.contained[i].beneficiary, "Patient")
               /\ Cardinality(EntriesTo(b, "Task")) = 2
               /\ \A i \in EntriesTo(b, "Task") :
                     /\ Targets(b, b.entry[i].resource.focus, "ServiceRequest")
                     /\ Targets(b, b.entry[i].resource.for, "Patient")
               /\ \A i \in EntriesTo(b, "Encounter") :
                     Targets(b, b.entry[i].resource.subject, "Patient")

C12_Witness ==
    \E p \in Invocations :
        /\ OrdersBy(p) # {}
        /\ bundle(p).entry[3].resource.focus.reference = bundle(p).entry[1].fullUrl
        /\ bundle(p).entry[5].resource.subject.reference = bundle(p).entry[2].fullUrl
        /\ bundle(p).entry[2].fullUrl = "urn:uuid:pat-2"

\* the profile of imaging (and any other non-pathology) orders
ImagingProfile == "http://hl7.org.au/fhir/ereq/StructureDefinition/au-erequesting-servicerequest-imag"

\* C13 as stated: the order's profile follows the source record's category
\* code: the pathology profile for 108252007, the imaging profile otherwise.
C13_Original ==
    \A p \in Invocations :
        BundleBuilt(p) =>
            bundle(p).entry[1].resource.meta.profile =
                << IF sr[p].category = "108252007" THEN LabProfile ELSE ImagingProfile >>

\* the requester or a performer of source record srv carries no identifier
LacksExternalIdentity(srv) ==
    \/ ~ HasKey(Parties[srv.requester], "identifier")
    \/ \E i \in 1..Len(srv.performer) : ~ HasKey(Parties[srv.performer[i]], "identifier")

\* C14 as stated: when the requester or a performer of the record carries no
\* external-facing identifier the invocation fails before it submits: no
\* order is created and the record is not written.
C14_Original ==
    \A p \in Invocations :
        (Called(p, "count") /\ LacksExternalIdentity(sr[p]))
        => /\ ~ Called(p, "submit")
           /\ ~ Called(p, "save")
           /\ OrdersBy(p) = {}

CallOrder == << "fetch", "count", "patient", "encounter", "submit", "save" >>

\* C16: the calls of one invocation are made in the order fetch, count,
\* patient and encounter resolution, submit, write-back: the count is read
\* only when the guard found nothing, the bundle submitted only after the
\* count, and the write-back is attempted only after the invocation's own
\* submission has succeeded.
C16_CallOrder ==
    \A p \in Invocations :
        /\ Len(calls[p]) <= Len(CallOrder)
        /\ \A i \in 1..Len(calls[p]) :
              \/ calls[p][i] = CallOrder[i]
              \/ /\ i = Len(calls[p])
                 /\ i >= 5
                 /\ calls[p][i] = CallOrder[i] \o ":error"
        /\ Called(p, "count")
           => /\ sr[p] # None
              /\ error[p] \notin { "NotFound", "AlreadySynchronized" }
              /\ order_number[p] >= 0
        /\ (Called(p, "submit") \/ Called(p, "submit:error")) => order_number[p] >= 0
        /\ (Called(p, "save") \/ Called(p, "save:error"))
           => /\ Called(p, "submit")
              /\ OrdersBy(p) # {}
        /\ OrdersBy(p) # {} <=> Called(p, "submit")

C16_Witness ==
    \E p \in Invocations : calls[p] = CallOrder /\ OrdersBy(p) # {}

(* --------------------- the content of the outbound order --------------- *)
\* C17 as stated: the order's encounter reference names the encounter the
\* bundle uses: the fullUrl of the encounter entry when the real encounter
\* is submitted as an entry, the inline stub only when no encounter entry
\* is submitted.
C17_Original ==
    \A p \in Invocations :
        BundleBuilt(p) =>
            LET b == bundle(p)
                order == b.entry[1].resource
            IN IF EntriesTo(b, "Encounter") # {}
               THEN Targets(b, order.encounter, "Encounter")
               ELSE /\ order.encounter.reference = "#encounter"
                    /\ \E i \in 1..Len(order.contained) : order.contained[i].id = "encounter"

\* C18 as stated: the outbound order carries the source record's category,
\* clinical code, priority and intent unchanged.
C18_Original ==
    \A p \in Invocations :
        BundleBuilt(p) =>
            LET order == bundle(p).entry[1].resource
            IN /\ order.category = sr[p].category
               /\ order.code = sr[p].code
               /\ order.priority = sr[p].priority
               /\ order.intent = sr[p].intent

(* ------------------- cross-references on the source --------------------- *)
\* the location shapes whose identity the extraction of lines 266-270 finds
HandledShapes == { "short", "pyro" }

\* C19: when the repository answers with a location of a handled shape,
\* every cross-reference in the repository's namespace stored on a source
\* record is the identity the repository assigned to an order created by a
\* successful submission made for that record.
C19_CrossReferenceProvenance ==
    deployment \in HandledShapes =>
        \A r \in DOMAIN emr :
            \A i \in DestEntries(emr[r].identifier) :
                \E j \in OrdersFor(r) : dest[j].id = emr[r].identifier[i].value

C19_Witness ==
    /\ deployment = "pyro"
    /\ \E r \in DOMAIN emr :
          /\ DestEntries(emr[r].identifier) # {}
          /\ \A i \in DestEntries(emr[r].identifier) :
                \E j \in OrdersFor(r) :
                    /\ dest[j].id = emr[r].identifier[i].value
                    /\ pc[dest[j].by] = "done"

\* the identifiers of list l, as a set
Elements(l) == { l[i] : i \in 1..Len(l) }

\* invocation p completes its write-back in this step
WritesBack(p) == pc[p] = "save" /\ pc'[p] = "done"

\* the orders created for record r that no source record refers to
Unreferenced(r) ==
    { j \in OrdersFor(r) :
        \A t \in DOMAIN emr :
            \A i \in 1..Len(emr[t].identifier) : emr[t].identifier[i].value # dest[j].id }

\* C20: a write-back replaces the stored list by the copy fetched at the
\* start plus its own entry: whatever was added to the record between fetch
\* and write-back is gone after it. Hence, when two invocations for one
\* record both complete, the record holds exactly one cross-reference and
\* one of the two orders is referenced by no source record; an identifier
\* another writer added in between is lost as well.
C20_LostUpdate ==
    /\ [][ \A p \in Invocations :
              WritesBack(p) =>
                  LET r == rec[p]
                      own == [ system |-> system, value |-> external_sr_id[p] ]
                  IN /\ emr'[r].identifier = Append(sr[p].identifier, own)
                     /\ \A e \in Elements(emr[r].identifier) :
                           (e \notin Elements(sr[p].identifier) /\ e # own)
                           => e \notin Elements(emr'[r].identifier) ]_vars
    /\ [](\A p, q \in Invocations :
              (p # q /\ rec[p] = rec[q] /\ pc[p] = "done" /\ pc[q] = "done")
              => /\ Cardinality(DestEntries(emr[rec[p]].identifier)) = 1
                 /\ Cardinality(OrdersFor(rec[p])) >= 2
                 /\ deployment \in HandledShapes
                    => Cardinality(Unreferenced(rec[p])) = Cardinality(OrdersFor(rec[p])) - 1)

C20_Witness ==
    /\ deployment = "short"
    /\ extWrites = 1
    /\ pc[1] = "done" /\ pc[2] = "done" /\ rec[1] = rec[2]
    /\ Cardinality(DestEntries(emr[rec[1]].identifier)) = 1
    /\ Cardinality(Unreferenced(rec[1])) = 1
    /\ \A i \in 1..Len(emr[rec[1]].identifier) :
          emr[rec[1]].identifier[i].system = OtherSystem
          => emr[rec[1]].identifier[i] \in Elements(Templates[2].identifier)

====
